---- MODULE Spec2Model ----
(***************************************************************************)
(* Model of the code analysis API (app/api/codebase_analyzer.py): the      *)
(* handlers analyze_file, analyze_directory and analyze_uploaded_file,     *)
(* stepped statement by statement, over a small file system.  The engine   *)
(* they call (scanner, parser, graph builder, analyzer of                  *)
(* app.modules.code_analyzer) is modelled from the design document.        *)
(***************************************************************************)
EXTENDS Integers, Sequences, FiniteSets, TLC

\* ---------------------------------------------------------------- bounds
MaxRefs == 1         \* names referenced by one function body
MaxTotalFuncs == 3   \* functions defined in the whole file system

\* ------------------------------------------------------------------ paths
\* A path is a sequence of components; a component is a stem and an
\* extension, so that basename and endswith(".py") are computed, not given.
Comp(s, e) == [stem |-> s, ext |-> e]

DirD == << Comp("d", "") >>
DirSub == << Comp("d", ""), Comp("sub", "") >>
DirE == << Comp("e", "") >>
DirM == << Comp("m", "") >>
DirTmp == << Comp("tmp", "") >>
FileA == << Comp("d", ""), Comp("a", "py") >>
FileB == << Comp("d", ""), Comp("b", "py") >>
FileN == << Comp("d", ""), Comp("n", "txt") >>
FileSubA == << Comp("d", ""), Comp("sub", ""), Comp("a", "py") >>
FileSubC == << Comp("d", ""), Comp("sub", ""), Comp("c", "py") >>
FileMX == << Comp("m", ""), Comp("x", "py") >>
TempJson == << Comp("tmp", ""), Comp("tmp2", "json") >>
TempPy == << Comp("tmp", ""), Comp("tmp1", "py") >>

\* directories that exist (DirM does not), source files that may exist
Dirs == {DirD, DirSub, DirE, DirTmp}
SourceFiles == {FileA, FileB, FileSubA}
FileRequestPaths == {FileA, FileSubA, FileN, FileMX, DirE, DirM}
DirRequestPaths == {DirD, DirSub, DirE, DirM, FileA}
UploadNames == {Comp("up", "py"), Comp("up", "txt")}
UploadSources == {FileA, FileN}

\* os.path.basename
basename(p) == p[Len(p)]

\* str.endswith(".py")
EndsWithPy(p) == p[Len(p)].ext = "py"

IsUnder(root, p) ==
    /\ Len(p) > Len(root)
    /\ SubSeq(p, 1, Len(root)) = root

\* --------------------------------------------------------- file contents
FuncNames == <<"foo", "bar">>
RefNames == {"foo", "bar", "ext"}

RefSets == {r \in SUBSET RefNames : Cardinality(r) <= MaxRefs}

\* a function definition of a source text: its name and the names its body
\* references
FuncDef == [name : {FuncNames[i] : i \in 1..Len(FuncNames)}, refs : RefSets]

NameIndex(name) == CHOOSE i \in 1..Len(FuncNames) : FuncNames[i] = name

\* function names are unique within a file; the definitions are listed in
\* the order of FuncNames
NamesDistinct(fl) ==
    \A i, j \in 1..Len(fl) : i < j => NameIndex(fl[i].name) < NameIndex(fl[j].name)

FuncLists ==
    {fl \in UNION {[1..n -> FuncDef] : n \in 0..Len(FuncNames)} : NamesDistinct(fl)}

\* a source text either parses (ok) into its function definitions or is
\* malformed
SyntaxErrorText == [ok |-> FALSE, funcs |-> << >>]
Contents == {[ok |-> TRUE, funcs |-> fl] : fl \in FuncLists} \cup {SyntaxErrorText}
PlainText == [ok |-> FALSE, funcs |-> << >>]
EmptyText == [ok |-> TRUE, funcs |-> << >>]

VARIABLES
    fs,         \* regular files of the file system: path -> content
    pc,         \* position of the handler being run
    req,        \* the request being handled
    files,      \* analyze_directory: files
    file_data,  \* file_data of the handler
    graph,      \* graph of the handler
    result,     \* result of summarize_analysis
    response,   \* what the handler returned or raised
    steps,      \* engine steps taken for the current request
    order,      \* order in which the scanner enumerates the files
    last,       \* the previous directory analysis: its request, order, response
    agent       \* the explainer agent: asked or not, the data it loaded, its result

vars == <<fs, pc, req, files, file_data, graph, result, response, steps, order, last, agent>>

\* os.path.exists, os.path.isdir
exists(p) == p \in Dirs \/ p \in DOMAIN fs
isdir(p) == p \in Dirs

\* ================================================================ engine
\* app.modules.code_analyzer: scanner, parser, graph builder, analyzer

\* order in which the scanner walks the tree: a directory's files by name,
\* then its subdirectories
ScanOrder == <<FileA, FileB, FileN, FileSubA, FileSubC>>

Reverse(sq) == [i \in 1..Len(sq) |-> sq[Len(sq) + 1 - i]]

\* the orders the scanner may enumerate the tree in
ScanOrders == {ScanOrder, Reverse(ScanOrder)}

\* Scanner: the files under root carrying the source extension, in scan order
find_python_files(root) ==
    LET Match(p) == p \in DOMAIN fs /\ IsUnder(root, p) /\ EndsWithPy(p)
    IN SelectSeq(order, Match)

\* Parser: the file's function records; a malformed file gives an empty
\* function list and a diagnostic instead of an exception
parse_python_file(p) ==
    IF p \notin DOMAIN fs THEN [functions |-> << >>, diagnostic |-> "Unreadable"]
    ELSE IF fs[p].ok THEN [functions |-> fs[p].funcs, diagnostic |-> "none"]
    ELSE [functions |-> << >>, diagnostic |-> "SyntaxError"]

Parsed(fd, p) == fd[p].diagnostic = "none"

Defines(fd, p, name) == \E i \in 1..Len(fd[p].functions) : fd[p].functions[i].name = name

\* index of the first file at or after i in fl that parsed and defines name
\* (0: none)
RECURSIVE FirstDefining(_, _, _, _)
FirstDefining(fl, fd, name, i) ==
    IF i > Len(fl) THEN 0
    ELSE IF Parsed(fd, fl[i]) /\ Defines(fd, fl[i], name) THEN i
    ELSE FirstDefining(fl, fd, name, i + 1)

\* variant: the first defining file in scan order, the caller's own file
\* having no priority
ResolveName_ScanOrderOnly(fl, fd, p, name) ==
    LET i == FirstDefining(fl, fd, name, 1)
    IN IF i = 0 THEN {} ELSE {<<fl[i], name>>}

\* variant: a name no analyzed file defines is looked up in every file of
\* the file system
ResolveName_Global(fl, fd, p, name) ==
    IF Defines(fd, p, name) THEN {<<p, name>>}
    ELSE LET i == FirstDefining(fl, fd, name, 1)
             Outside == {q \in DOMAIN fs : fs[q].ok /\ \E k \in 1..Len(fs[q].funcs) :
                                                         fs[q].funcs[k].name = name}
         IN IF i = 0 THEN {<<q, name>> : q \in Outside} ELSE {<<fl[i], name>>}

\* Graph builder tie-break: the caller's own file first, else the first file
\* in scan order; the empty set for a name no analyzed file defines
ResolveName(fl, fd, p, name) ==
    IF Defines(fd, p, name) THEN {<<p, name>>}
    ELSE LET i == FirstDefining(fl, fd, name, 1)
         IN IF i = 0 THEN {} ELSE {<<fl[i], name>>}

\* edges leaving one function: one per referenced name that resolves to a
\* function of the analyzed set (in the same file or another one)
EdgesOfFunction(fl, fd, p, f) ==
    {<<<<p, f.name>>, t>> : t \in UNION {ResolveName(fl, fd, p, n) : n \in f.refs}}

RECURSIVE EdgesOfFile(_, _, _, _)
EdgesOfFile(fl, fd, p, i) ==
    IF i = 0 THEN {}
    ELSE EdgesOfFile(fl, fd, p, i - 1)
         \cup EdgesOfFunction(fl, fd, p, fd[p].functions[i])

RECURSIVE EdgesFrom(_, _, _)
EdgesFrom(fl, fd, i) ==
    IF i = 0 THEN {}
    ELSE EdgesFrom(fl, fd, i - 1)
         \cup EdgesOfFile(fl, fd, fl[i], Len(fd[fl[i]].functions))

\* Graph builder: nodes are the parsed files, edges the resolved references
build_dependency_graph(fl, fd) ==
    [nodes |-> {fl[i] : i \in {j \in 1..Len(fl) : Parsed(fd, fl[j])}},
     edges |-> EdgesFrom(fl, fd, Len(fl))]

\* variant: a function that calls nothing is taken for an entry point
FunctionEntry_ByFanOut(g, p, f) ==
    LET node == <<p, f.name>>
        succ == {e[2] : e \in {x \in g.edges : x[1] = node}}
        pred == {e[1] : e \in {x \in g.edges : x[2] = node}}
    IN [name |-> f.name,
        fan_in |-> Cardinality(pred),
        fan_out |-> Cardinality(succ),
        is_entry_point |-> (succ = {})]

\* Analyzer, one function: distinct successors, distinct predecessors
FunctionEntry(g, p, f) ==
    LET node == <<p, f.name>>
        succ == {e[2] : e \in {x \in g.edges : x[1] = node}}
        pred == {e[1] : e \in {x \in g.edges : x[2] = node}}
    IN [name |-> f.name,
        fan_in |-> Cardinality(pred),
        fan_out |-> Cardinality(succ),
        is_entry_point |-> (pred = {})]

FileEntry(g, p, rec) ==
    [file |-> basename(p),
     functions |-> [i \in 1..Len(rec.functions) |-> FunctionEntry(g, p, rec.functions[i])]]

\* dict assignment m[k] = v
Put(m, k, v) == [x \in DOMAIN m \cup {k} |-> IF x = k THEN v ELSE m[x]]

RECURSIVE SummarizeFrom(_, _, _, _)
SummarizeFrom(g, fl, fd, i) ==
    IF i = 0 THEN << >>
    ELSE LET prev == SummarizeFrom(g, fl, fd, i - 1)
             p == fl[i]
         IN IF Parsed(fd, p)
            THEN Put(prev, basename(p), FileEntry(g, p, fd[p]))
            ELSE prev

\* Analyzer: the report, keyed by base name, one key per parsed file, files
\* taken in the order of file_data (fl: its keys in insertion order)
summarize_analysis(g, fl, fd) == SummarizeFrom(g, fl, fd, Len(fl))

\* ============================================================== handlers
NoRequest == [op |-> "none", path |-> << >>, filename |-> Comp("", ""), content |-> PlainText]
NoResponse == [kind |-> "none", status |-> 0, results |-> << >>]
EmptyGraph == [nodes |-> {}, edges |-> {}]
NoLast == [req |-> NoRequest, order |-> << >>, response |-> NoResponse]
NoName == Comp("", "")
NoData == [dict |-> TRUE, first |-> NoName, map |-> << >>]
NoAgentResult ==
    [file |-> NoName, keys |-> {}, markdown |-> [kind |-> "none", file |-> NoName],
     error |-> FALSE]
NoAction ==
    [raises |-> FALSE, explain_code |-> FALSE, find_important_functions |-> FALSE,
     summarize_specific_function |-> FALSE, function_name |-> "",
     overall_analysis |-> FALSE]
NoAgent ==
    [asked |-> FALSE, action |-> NoAction, llm |-> "ok", data |-> NoData,
     result |-> NoAgentResult]

\* raise HTTPException(status_code, detail): the detail is kept as its kind
HTTPException(status, kind) == [kind |-> kind, status |-> status, results |-> << >>]

\* return {"results": r}
Results(r) == [kind |-> "OK", status |-> 200, results |-> r]

TotalFuncs(f) ==
    LET n(p) == IF p \in DOMAIN f THEN Len(f[p].funcs) ELSE 0
    IN n(FileA) + n(FileB) + n(FileSubA) + n(FileSubC)

Init ==
    /\ \E S \in SUBSET SourceFiles : \E c \in [S -> Contents] :
          /\ TotalFuncs(c) <= MaxTotalFuncs
          /\ fs = [p \in S \cup {FileN} |-> IF p = FileN THEN PlainText ELSE c[p]]
    /\ pc = "idle"
    /\ req = NoRequest
    /\ files = << >>
    /\ file_data = << >>
    /\ graph = EmptyGraph
    /\ result = << >>
    /\ response = NoResponse
    /\ steps = {}
    /\ order = ScanOrder
    /\ last = NoLast
    /\ agent = NoAgent

Locals == <<files, file_data, graph, result, steps>>

\* a request arrives
StartFile ==
    /\ pc = "idle"
    /\ \E p \in FileRequestPaths :
          req' = [op |-> "file", path |-> p, filename |-> Comp("", ""), content |-> PlainText]
    /\ pc' = "file_exists"
    /\ UNCHANGED <<agent, order, last, fs, response, Locals>>

StartDirectory ==
    /\ pc = "idle"
    /\ \E p \in DirRequestPaths :
          req' = [op |-> "dir", path |-> p, filename |-> Comp("", ""), content |-> PlainText]
    /\ pc' = "dir_exists"
    /\ UNCHANGED <<agent, order, last, fs, response, Locals>>

\* the uploaded text is a copy of one of the files
StartUpload ==
    /\ pc = "idle"
    /\ \E n \in UploadNames : \E p \in DOMAIN fs \cap UploadSources :
          req' = [op |-> "upload", path |-> << >>, filename |-> n, content |-> fs[p]]
    /\ pc' = "up_ext"
    /\ UNCHANGED <<agent, order, last, fs, response, Locals>>

\* the handler raises: the request ends with the error
Raise(e) ==
    /\ response' = e
    /\ pc' = "done"

\* ---- analyze_file
\* variant: the existence check is missing
FileCheckExists_Skipped ==
    /\ pc = "file_exists"
    /\ pc' = "file_ext"
    /\ UNCHANGED <<agent, order, last, fs, req, response, Locals>>

FileCheckExists ==
    /\ pc = "file_exists"
    /\ IF ~exists(req.path)
       THEN Raise(HTTPException(404, "NotFound"))
       ELSE pc' = "file_ext" /\ UNCHANGED response
    /\ UNCHANGED <<agent, order, last, fs, req, Locals>>

\* variant: the extension check is missing
FileCheckExt_Skipped ==
    /\ pc = "file_ext"
    /\ pc' = "file_parse"
    /\ UNCHANGED <<agent, order, last, fs, req, response, Locals>>

FileCheckExt ==
    /\ pc = "file_ext"
    /\ IF ~EndsWithPy(req.path)
       THEN Raise(HTTPException(400, "WrongFileType"))
       ELSE pc' = "file_parse" /\ UNCHANGED response
    /\ UNCHANGED <<agent, order, last, fs, req, Locals>>

FileParse ==
    /\ pc = "file_parse"
    /\ file_data' = (req.path :> parse_python_file(req.path))
    /\ steps' = steps \cup {"parse"}
    /\ pc' = "file_graph"
    /\ UNCHANGED <<agent, order, last, fs, req, files, graph, result, response>>

\* variant: the node of the file is not added
FileGraph_NoNode ==
    /\ pc = "file_graph"
    /\ graph' = EmptyGraph
    /\ steps' = steps \cup {"graph"}
    /\ pc' = "file_analyze"
    /\ UNCHANGED <<agent, order, last, fs, req, files, file_data, result, response>>

\* graph = nx.DiGraph(); graph.add_node(target_file)
FileGraph ==
    /\ pc = "file_graph"
    /\ graph' = [nodes |-> {req.path}, edges |-> {}]
    /\ steps' = steps \cup {"graph"}
    /\ pc' = "file_analyze"
    /\ UNCHANGED <<agent, order, last, fs, req, files, file_data, result, response>>

FileAnalyze ==
    /\ pc = "file_analyze"
    /\ result' = summarize_analysis(graph, <<req.path>>, file_data)
    /\ steps' = steps \cup {"analyze"}
    /\ pc' = "file_filter"
    /\ UNCHANGED <<agent, order, last, fs, req, files, file_data, graph, response>>

\* variant: a missing entry is returned as an empty report instead of raised
FilterForTarget_NoRaise(res, base_name) ==
    Results([k \in DOMAIN res \cap {base_name} |-> res[k]])

\* the filter of analyze_file: the entry under the base name, or the 500
FilterForTarget(res, base_name) ==
    IF base_name \in DOMAIN res
    THEN Results(base_name :> res[base_name])
    ELSE HTTPException(500, "NoAnalysisAvailable")

FileFilter ==
    /\ pc = "file_filter"
    /\ response' = FilterForTarget(result, basename(req.path))
    /\ pc' = "done"
    /\ UNCHANGED <<agent, order, last, fs, req, Locals>>

\* ---- analyze_directory
DirCheckExists ==
    /\ pc = "dir_exists"
    /\ IF ~exists(req.path) \/ ~isdir(req.path)
       THEN Raise(HTTPException(404, "NotFound"))
       ELSE pc' = "dir_scan" /\ UNCHANGED response
    /\ UNCHANGED <<agent, order, last, fs, req, Locals>>

\* variant: only the first file found is kept
DirScan_FirstOnly ==
    /\ pc = "dir_scan"
    /\ files' = LET found == find_python_files(req.path)
                 IN IF found = << >> THEN << >> ELSE <<Head(found)>>
    /\ steps' = steps \cup {"scan"}
    /\ IF files' = << >>
       THEN Raise(HTTPException(404, "NoSourceFiles"))
       ELSE pc' = "dir_parse" /\ UNCHANGED response
    /\ UNCHANGED <<agent, order, last, fs, req, file_data, graph, result>>

\* variant: an empty scan is not rejected
DirScan_NoEmptyCheck ==
    /\ pc = "dir_scan"
    /\ files' = find_python_files(req.path)
    /\ steps' = steps \cup {"scan"}
    /\ pc' = "dir_parse"
    /\ UNCHANGED <<agent, order, last, fs, req, file_data, graph, result, response>>

\* variant: the list of files comes back in an order of its own
DirScan_AnyOrder ==
    /\ pc = "dir_scan"
    /\ \E o \in ScanOrders :
          LET Match(p) == p \in DOMAIN fs /\ IsUnder(req.path, p) /\ EndsWithPy(p)
          IN files' = SelectSeq(o, Match)
    /\ steps' = steps \cup {"scan"}
    /\ IF files' = << >>
       THEN Raise(HTTPException(404, "NoSourceFiles"))
       ELSE pc' = "dir_parse" /\ UNCHANGED response
    /\ UNCHANGED <<agent, order, last, fs, req, file_data, graph, result>>

DirScan ==
    /\ pc = "dir_scan"
    /\ files' = find_python_files(req.path)
    /\ steps' = steps \cup {"scan"}
    /\ IF files' = << >>
       THEN Raise(HTTPException(404, "NoSourceFiles"))
       ELSE pc' = "dir_parse" /\ UNCHANGED response
    /\ UNCHANGED <<agent, order, last, fs, req, file_data, graph, result>>

\* keys of file_data in insertion order
FileDataKeys ==
    LET In(p) == p \in DOMAIN file_data
    IN SelectSeq(files, In)

\* variant: the loop over the files ends after the first one
DirParse_EarlyExit ==
    /\ pc = "dir_parse"
    /\ file_data' = (files[1] :> parse_python_file(files[1]))
    /\ steps' = steps \cup {"parse"}
    /\ pc' = "dir_graph"
    /\ UNCHANGED <<agent, order, last, fs, req, files, graph, result, response>>

\* file_data = {f: parse_python_file(f) for f in files}, one file a step
DirParse ==
    /\ pc = "dir_parse"
    /\ IF files = << >>
       THEN file_data' = << >>
       ELSE LET f == files[Len(FileDataKeys) + 1]
            IN file_data' = [p \in DOMAIN file_data \cup {f} |->
                                IF p = f THEN parse_python_file(f) ELSE file_data[p]]
    /\ steps' = steps \cup {"parse"}
    /\ pc' = IF Len(FileDataKeys) + 1 >= Len(files) THEN "dir_graph" ELSE "dir_parse"
    /\ UNCHANGED <<agent, order, last, fs, req, files, graph, result, response>>

\* variant: the minimal graph of analyze_file instead of the built one
DirGraph_Minimal ==
    /\ pc = "dir_graph"
    /\ graph' = [nodes |-> DOMAIN file_data, edges |-> {}]
    /\ steps' = steps \cup {"graph"}
    /\ pc' = "dir_analyze"
    /\ UNCHANGED <<agent, order, last, fs, req, files, file_data, result, response>>

DirGraph ==
    /\ pc = "dir_graph"
    /\ graph' = build_dependency_graph(FileDataKeys, file_data)
    /\ steps' = steps \cup {"graph"}
    /\ pc' = "dir_analyze"
    /\ UNCHANGED <<agent, order, last, fs, req, files, file_data, result, response>>

DirAnalyze ==
    /\ pc = "dir_analyze"
    /\ result' = summarize_analysis(graph, FileDataKeys, file_data)
    /\ steps' = steps \cup {"analyze"}
    /\ response' = Results(result')
    /\ pc' = "done"
    /\ UNCHANGED <<agent, order, last, fs, req, files, file_data, graph>>

\* ---- analyze_uploaded_file
UploadCheckExt ==
    /\ pc = "up_ext"
    /\ IF req.filename.ext # "py"
       THEN Raise(HTTPException(400, "WrongFileType"))
       ELSE pc' = "up_temp" /\ UNCHANGED response
    /\ UNCHANGED <<agent, order, last, fs, req, Locals>>

\* NamedTemporaryFile(delete=False, suffix=".py"): the file exists, empty
UploadCreateTemp ==
    /\ pc = "up_temp"
    /\ fs' = (TempPy :> EmptyText) @@ fs
    /\ req' = [req EXCEPT !.path = TempPy]
    /\ pc' = "up_write"
    /\ UNCHANGED <<agent, order, last, response, Locals>>

\* content = await file.read(); temp.write(content); temp_path = temp.name
UploadWrite ==
    /\ pc = "up_write"
    /\ fs' = [fs EXCEPT ![TempPy] = req.content]
    /\ pc' = "up_parse"
    /\ UNCHANGED <<agent, order, last, req, response, Locals>>

UploadParse ==
    /\ pc = "up_parse"
    /\ file_data' = (req.path :> parse_python_file(req.path))
    /\ steps' = steps \cup {"parse"}
    /\ pc' = "up_graph"
    /\ UNCHANGED <<agent, order, last, fs, req, files, graph, result, response>>

UploadGraph ==
    /\ pc = "up_graph"
    /\ graph' = [nodes |-> {req.path}, edges |-> {}]
    /\ steps' = steps \cup {"graph"}
    /\ pc' = "up_analyze"
    /\ UNCHANGED <<agent, order, last, fs, req, files, file_data, result, response>>

UploadAnalyze ==
    /\ pc = "up_analyze"
    /\ result' = summarize_analysis(graph, <<req.path>>, file_data)
    /\ steps' = steps \cup {"analyze"}
    /\ pc' = "up_filter"
    /\ UNCHANGED <<agent, order, last, fs, req, files, file_data, graph, response>>

\* variant: the entry keeps the temporary file's name
FilterForUpload_KeepFile(res, temp_name, filename) ==
    IF temp_name \in DOMAIN res
    THEN Results(filename :> res[temp_name])
    ELSE HTTPException(500, "NoAnalysisAvailable")

\* variant: the entry is returned under the key it was computed under
FilterForUpload_TempKey(res, temp_name, filename) ==
    IF temp_name \in DOMAIN res
    THEN Results(temp_name :> [res[temp_name] EXCEPT !.file = filename])
    ELSE HTTPException(500, "NoAnalysisAvailable")

\* the filter of analyze_uploaded_file: looked up under the temporary
\* file's base name, returned under the original file name, with the
\* entry's "file" replaced by it
FilterForUpload(res, temp_name, filename) ==
    IF temp_name \in DOMAIN res
    THEN Results(filename :> [res[temp_name] EXCEPT !.file = filename])
    ELSE HTTPException(500, "NoAnalysisAvailable")

UploadFilter ==
    /\ pc = "up_filter"
    /\ response' = FilterForUpload(result, basename(req.path), req.filename)
    /\ pc' = "up_finally"
    /\ UNCHANGED <<agent, order, last, fs, req, Locals>>

\* finally: if os.path.exists(temp_path): os.unlink(temp_path)
UploadFinally ==
    /\ pc = "up_finally"
    /\ fs' = [p \in DOMAIN fs \ {req.path} |-> fs[p]]
    /\ pc' = "done"
    /\ UNCHANGED <<agent, order, last, req, response, Locals>>

\* the response has been sent; the handler's locals are gone
Finish ==
    /\ pc = "done"
    /\ pc' = "idle"
    /\ req' = NoRequest
    /\ files' = << >>
    /\ file_data' = << >>
    /\ graph' = EmptyGraph
    /\ result' = << >>
    /\ response' = NoResponse
    /\ steps' = {}
    /\ UNCHANGED <<fs, order, last, agent>>

Next ==
    \/ StartFile \/ StartDirectory \/ StartUpload
    \/ FileCheckExists \/ FileCheckExt \/ FileParse \/ FileGraph
    \/ FileAnalyze \/ FileFilter
    \/ DirCheckExists \/ DirScan \/ DirParse \/ DirGraph \/ DirAnalyze
    \/ UploadCheckExt \/ UploadCreateTemp \/ UploadWrite \/ UploadParse \/ UploadGraph
    \/ UploadAnalyze \/ UploadFilter \/ UploadFinally
    \/ Finish

Spec == Init /\ [][Next]_vars

\* ------------------------------------------------- repeated analyses
\* the same tree analyzed several times: d/a.py, d/b.py and d/sub/c.py, all
\* well-formed, and the scanner walking the tree in one of two orders

\* a single-file request for one of the files of the tree
StartFileRun ==
    /\ pc = "idle"
    /\ \E p \in {FileA, FileSubC, FileN} :
          req' = [op |-> "file", path |-> p, filename |-> Comp("", ""), content |-> PlainText]
    /\ pc' = "file_exists"
    /\ UNCHANGED <<agent, order, last, fs, response, Locals>>

RunFiles == {FileA, FileB, FileSubC}
RunDirs == {DirD, DirSub}

\* well-formed texts whose functions refer to function names only
RunContents ==
    {x \in Contents :
        x.ok /\ \A i \in 1..Len(x.funcs) : \A n \in x.funcs[i].refs :
                   \E k \in 1..Len(FuncNames) : FuncNames[k] = n}

InitRuns ==
    /\ \E c \in [RunFiles -> RunContents] :
          /\ TotalFuncs(c) <= MaxTotalFuncs
          /\ fs = (FileN :> PlainText) @@ c
    /\ pc = "idle"
    /\ req = NoRequest
    /\ files = << >>
    /\ file_data = << >>
    /\ graph = EmptyGraph
    /\ result = << >>
    /\ response = NoResponse
    /\ steps = {}
    /\ order = ScanOrder
    /\ last = NoLast
    /\ agent = NoAgent

\* a directory request; the scanner will enumerate in order o
StartDirectoryRun ==
    /\ pc = "idle"
    /\ \E p \in RunDirs :
          req' = [op |-> "dir", path |-> p, filename |-> Comp("", ""), content |-> PlainText]
    /\ \E o \in ScanOrders : order' = o
    /\ pc' = "dir_exists"
    /\ UNCHANGED <<agent, last, fs, response, Locals>>

\* the response has been sent; a directory analysis is remembered
FinishRun ==
    /\ pc = "done"
    /\ pc' = "idle"
    /\ last' = IF req.op = "dir"
               THEN [req |-> req, order |-> order, response |-> response]
               ELSE last
    /\ order' = ScanOrder
    /\ req' = NoRequest
    /\ files' = << >>
    /\ file_data' = << >>
    /\ graph' = EmptyGraph
    /\ result' = << >>
    /\ response' = NoResponse
    /\ steps' = {}
    /\ UNCHANGED <<fs, agent>>

NextRuns ==
    \/ StartFileRun \/ StartDirectoryRun
    \/ FileCheckExists \/ FileCheckExt \/ FileParse \/ FileGraph \/ FileAnalyze \/ FileFilter
    \/ DirCheckExists \/ DirScan \/ DirParse \/ DirGraph \/ DirAnalyze
    \/ FinishRun

SpecRuns == InitRuns /\ [][NextRuns]_vars

\* ------------------------------------------------------------ the agent
\* app.api.analyzer_agent: explain_code, upload_and_explain,
\* analyze_and_explain; app.modules.analyzer_agent.agents.chain

\* analyze_file called as a function by the agent handlers
analyze_file(path) ==
    IF ~exists(path) THEN HTTPException(404, "NotFound")
    ELSE IF ~EndsWithPy(path) THEN HTTPException(400, "WrongFileType")
    ELSE LET fd == (path :> parse_python_file(path))
             g == [nodes |-> {path}, edges |-> {}]
         IN FilterForTarget(summarize_analysis(g, <<path>>, fd), basename(path))

\* analyze_directory called as a function by explain_code
analyze_directory(path) ==
    IF ~exists(path) \/ ~isdir(path) THEN HTTPException(404, "NotFound")
    ELSE LET fl == find_python_files(path)
             fd == [f \in {fl[i] : i \in 1..Len(fl)} |-> parse_python_file(f)]
         IN IF fl = << >> THEN HTTPException(404, "NoSourceFiles")
            ELSE Results(summarize_analysis(build_dependency_graph(fl, fd), fl, fd))

\* next(iter(d)) of the report computed from the files fl: the key inserted
\* first
FirstKey(fl, fd) ==
    LET idx == {i \in 1..Len(fl) : Parsed(fd, fl[i])}
    IN IF idx = {} THEN NoName
       ELSE basename(fl[CHOOSE i \in idx : \A j \in idx : i <= j])

\* return {"error": str(e)}: a 200 response with an error body
ErrorBody(kind) == [kind |-> "ErrorBody", status |-> 200, results |-> kind]

\* return result
AgentBody(r) == [kind |-> "Agent", status |-> 200, results |-> r]

\* return {"analysis": analysis_response, "explanation": explanation_result}
CombinedBody(a, r) == [kind |-> "Combined", status |-> 200, results |-> r, analysis |-> a]

\* formatted_data: a report of one entry is re-keyed with the original name
FormatForAgent(code_data, first, file_name) ==
    IF Cardinality(DOMAIN code_data) = 1
    THEN [dict |-> TRUE, first |-> file_name, map |-> (file_name :> code_data[first])]
    ELSE [dict |-> TRUE, first |-> first, map |-> code_data]

\* the text of a JSON file holding the object d
JsonFile(d) == [json |-> "object", first |-> d.first, map |-> d.map]

\* a file that does not parse as JSON, and one holding a JSON list
InvalidJson == [json |-> "invalid", first |-> NoName, map |-> << >>]
JsonList == [json |-> "list", first |-> NoName, map |-> << >>]

\* a loaded value that is not a dict
NotADict == [dict |-> FALSE, first |-> NoName, map |-> << >>]

\* load_dummy_input: {} for a missing file and for a JSON decode error,
\* else whatever the file holds
load_dummy_input(path) ==
    IF path \notin DOMAIN fs THEN NoData
    ELSE IF "json" \notin DOMAIN fs[path] THEN NoData
    ELSE CASE fs[path].json = "invalid" -> NoData
           [] fs[path].json = "list" -> NotADict
           [] OTHER -> [dict |-> TRUE, first |-> fs[path].first, map |-> fs[path].map]

\* CodeExplainerAgent.load_code_data: what load_dummy_input returns
load_code_data(path) == load_dummy_input(path)

\* the function names a query may ask about
QueryNames == {"", "foo"}

\* what triage_query can make of a query: it raises, or it returns an
\* ActionType with any combination of flags
TriageActions ==
    {a \in [raises : BOOLEAN, explain_code : BOOLEAN, find_important_functions : BOOLEAN,
            summarize_specific_function : BOOLEAN, function_name : QueryNames,
            overall_analysis : BOOLEAN] :
        a.raises => a = [NoAction EXCEPT !.raises = TRUE]}

\* the completion API answers, answers with nothing, or raises
LlmOutcomes == {"ok", "empty", "raises"}

UnnamedFile == Comp("unnamed_file", "")

\* format_as_markdown: the header names the file, "unnamed_file" for none
format_as_markdown(file) ==
    [kind |-> "doc", file |-> IF file = NoName THEN UnnamedFile ELSE file]

\* file_name as process_query derives it from the loaded data
AgentFileName(data) ==
    LET top == Comp("file", "")
        file0 == IF top \in DOMAIN data.map THEN data.map[top].file ELSE NoName
    IN IF file0 = NoName /\ DOMAIN data.map # {}
       THEN IF "file" \in DOMAIN data.map[data.first]
            THEN data.map[data.first].file
            ELSE data.first
       ELSE file0

\* the functions process_query works on
AgentFunctions(data) ==
    LET file_name == AgentFileName(data)
    IN IF file_name \in DOMAIN data.map THEN data.map[file_name].functions
       ELSE IF DOMAIN data.map # {} THEN data.map[data.first].functions
       ELSE << >>

\* the function the query names is among the functions
FunctionFound(action, data) ==
    \E i \in 1..Len(AgentFunctions(data)) :
       AgentFunctions(data)[i].name = action.function_name

\* the keys the if/elif chain on the action adds to the result
ActionKeys(action, llm, data) ==
    IF action.explain_code THEN {"summarized_functions", "markdown"}
    ELSE IF action.find_important_functions THEN {"important_functions", "markdown"}
    ELSE IF action.summarize_specific_function /\ action.function_name # ""
    THEN IF FunctionFound(action, data) /\ llm = "ok"
         THEN {"function_summary", "markdown"}
         ELSE {"error"}
    ELSE {}

SummaryKeys == {"summarized_functions", "important_functions", "function_summary"}

\* variant: the overall analysis is added without summarizing anything first
OverallKeys_NoFallback(keys) == keys \cup {"overall_analysis"}

\* if action.overall_analysis: the important functions are summarized when
\* nothing has been summarized yet, and markdown is added when missing
OverallKeys(keys) ==
    IF keys \cap SummaryKeys # {}
    THEN keys \cup {"overall_analysis"}
    ELSE keys \cup {"important_functions", "markdown", "overall_analysis"}

\* a call of the completion API is made
CallsLlm(action, data) ==
    \/ action.overall_analysis
    \/ action.explain_code /\ AgentFunctions(data) # << >>
    \/ ~action.explain_code /\ action.find_important_functions
          /\ AgentFunctions(data) # << >>
    \/ ~action.explain_code /\ ~action.find_important_functions
          /\ action.summarize_specific_function /\ action.function_name # ""
          /\ FunctionFound(action, data)

\* an exception is raised inside the try of process_query: by triage, by
\* data.get on a value that is not a dict, or by a completion call
QueryRaises(action, llm, data) ==
    \/ action.raises
    \/ ~data.dict
    \/ llm = "raises" /\ CallsLlm(action, data)

\* variant: the except branch returns the error alone
ExceptionResult_ErrorOnly ==
    [file |-> NoName, keys |-> {"error"},
     markdown |-> [kind |-> "none", file |-> NoName], error |-> TRUE]

\* except Exception: return {"error": ..., "file": "", "markdown": ...}
ExceptionResult ==
    [file |-> NoName, keys |-> {"error", "file", "markdown"},
     markdown |-> [kind |-> "error", file |-> NoName], error |-> TRUE]

\* CodeExplainerAgent.process_query for a triage outcome, a behaviour of the
\* completion API and the loaded data
process_query(action, llm, data) ==
    IF QueryRaises(action, llm, data) THEN ExceptionResult
    ELSE LET file_name == AgentFileName(data)
             keys1 == ActionKeys(action, llm, data)
             keys2 == IF action.overall_analysis THEN OverallKeys(keys1) ELSE keys1
         IN [file |-> file_name,
             keys |-> {"file"} \cup keys2,
             markdown |-> IF "markdown" \in keys2
                          THEN format_as_markdown(file_name)
                          ELSE [kind |-> "none", file |-> NoName],
             error |-> "error" \in keys2]

\* tempfile hands out a name no existing file has
NoTempFiles == TempPy \notin DOMAIN fs /\ TempJson \notin DOMAIN fs

Remove(p) == [q \in DOMAIN fs \ {p} |-> fs[q]]

\* ---- analyze_uploaded_file
\* an upload arrives while no temporary file is around
StartUploadFresh == StartUpload /\ NoTempFiles

\* reading the upload or writing the copy raises, outside the try
UploadWriteFails ==
    /\ pc = "up_write"
    /\ Raise(HTTPException(500, "InternalError"))
    /\ UNCHANGED <<agent, order, last, fs, req, Locals>>

\* ---- upload_and_explain, analyze_and_explain
StartUploadExplain ==
    /\ pc = "idle"
    /\ NoTempFiles
    /\ \E o \in {"upload_explain", "analyze_explain"} :
       \E n \in UploadNames : \E p \in DOMAIN fs \cap UploadSources :
          req' = [op |-> o, path |-> << >>, filename |-> n, content |-> fs[p]]
    /\ pc' = "ue_ext"
    /\ UNCHANGED <<agent, order, last, fs, response, Locals>>

UECheckExt ==
    /\ pc = "ue_ext"
    /\ IF req.filename.ext # "py"
       THEN Raise(HTTPException(400, "WrongFileType"))
       ELSE pc' = "ue_temp" /\ UNCHANGED response
    /\ UNCHANGED <<agent, order, last, fs, req, Locals>>

\* NamedTemporaryFile(delete=False, suffix=".py")
UECreateTemp ==
    /\ pc = "ue_temp"
    /\ fs' = (TempPy :> EmptyText) @@ fs
    /\ req' = [req EXCEPT !.path = TempPy]
    /\ pc' = "ue_write"
    /\ UNCHANGED <<agent, order, last, response, Locals>>

\* content = await file.read(); temp.write(content)
UEWrite ==
    /\ pc = "ue_write"
    /\ fs' = [fs EXCEPT ![TempPy] = req.content]
    /\ pc' = "ue_analyze"
    /\ UNCHANGED <<agent, order, last, req, response, Locals>>

\* reading the upload or writing the copy raises, outside the try
UEWriteFails ==
    /\ pc = "ue_write"
    /\ Raise(HTTPException(500, "InternalError"))
    /\ UNCHANGED <<agent, order, last, fs, req, Locals>>

\* analysis_response = analyze_file(...); code_data = its "results"
UEAnalyze ==
    /\ pc = "ue_analyze"
    /\ LET r == analyze_file(req.path)
       IN IF r.kind # "OK"
          THEN response' = ErrorBody(r.kind) /\ pc' = "ue_finally" /\ UNCHANGED result
          ELSE IF DOMAIN r.results = {}
          THEN response' = ErrorBody("NoData") /\ pc' = "ue_finally" /\ UNCHANGED result
          ELSE result' = r.results /\ pc' = "ue_json" /\ UNCHANGED response
    /\ steps' = steps \cup {"analyze"}
    /\ UNCHANGED <<agent, order, last, fs, req, files, file_data, graph>>

\* NamedTemporaryFile(delete=False, suffix=".json", mode="w")
UEJsonCreate ==
    /\ pc = "ue_json"
    /\ fs' = (TempJson :> EmptyText) @@ fs
    /\ pc' = "ue_dump"
    /\ UNCHANGED <<agent, order, last, req, response, Locals>>

\* json.dump(formatted_data, analysis_temp); flush
UEDump ==
    /\ pc = "ue_dump"
    /\ fs' = [fs EXCEPT ![TempJson] =
                 JsonFile(FormatForAgent(result, basename(req.path), req.filename))]
    /\ pc' = "ue_query"
    /\ UNCHANGED <<agent, order, last, req, response, Locals>>

\* writing the JSON raises inside the with block: except, then finally
UEDumpFails ==
    /\ pc = "ue_dump"
    /\ response' = ErrorBody("Exception")
    /\ pc' = "ue_finally"
    /\ UNCHANGED <<agent, order, last, fs, req, Locals>>

\* result = agent.process_query(query, analysis_path)
UEQuery ==
    /\ pc = "ue_query"
    /\ \E a \in TriageActions : \E l \in LlmOutcomes :
          LET d == load_code_data(TempJson)
              r == process_query(a, l, d)
          IN /\ agent' = [asked |-> TRUE, action |-> a, llm |-> l, data |-> d, result |-> r]
             /\ response' = IF req.op = "upload_explain"
                            THEN AgentBody(r)
                            ELSE CombinedBody(Results(result), r)
    /\ pc' = "ue_json_unlink"
    /\ UNCHANGED <<order, last, fs, req, Locals>>

\* inner finally: os.unlink(analysis_path)
UEJsonUnlink ==
    /\ pc = "ue_json_unlink"
    /\ fs' = Remove(TempJson)
    /\ pc' = "ue_finally"
    /\ UNCHANGED <<agent, order, last, req, response, Locals>>

\* outer finally: os.unlink(temp_path)
UEFinally ==
    /\ pc = "ue_finally"
    /\ fs' = Remove(TempPy)
    /\ pc' = "done"
    /\ UNCHANGED <<agent, order, last, req, response, Locals>>

\* ---- explain_code
\* a report a client sends as code_analysis
SampleAnalysis ==
    (basename(FileB) :>
        [file |-> basename(FileB),
         functions |-> <<[name |-> "bar", fan_in |-> 0, fan_out |-> 0, is_entry_point |-> TRUE]>>])

ExplainPaths == {FileA, FileN, FileMX, DirD, DirE}

StartExplain ==
    /\ pc = "idle"
    /\ NoTempFiles
    /\ \E o \in {"explain_analysis", "explain_file", "explain_dir", "explain_none"} :
       \E p \in ExplainPaths :
          /\ o \in {"explain_analysis", "explain_none"} => p = FileA
          /\ req' = [op |-> o, path |-> p, filename |-> NoName, content |-> PlainText]
    /\ pc' = "ex_data"
    /\ UNCHANGED <<agent, order, last, fs, response, Locals>>

\* code_data from code_analysis, analyze_file or analyze_directory; an
\* HTTPException raised on the way is caught by except Exception
ExData ==
    /\ pc = "ex_data"
    /\ LET r == CASE req.op = "explain_analysis" -> Results(SampleAnalysis)
                  [] req.op = "explain_file" -> analyze_file(req.path)
                  [] req.op = "explain_dir" -> analyze_directory(req.path)
                  [] OTHER -> HTTPException(400, "MissingInput")
       IN IF r.kind # "OK"
          THEN /\ response' = ErrorBody(r.kind)
               /\ pc' = "done"
               /\ UNCHANGED <<result, files>>
          ELSE IF DOMAIN r.results = {}
          THEN /\ response' = ErrorBody("NoData")
               /\ pc' = "done"
               /\ UNCHANGED <<result, files>>
          ELSE /\ result' = r.results
               /\ files' = IF req.op = "explain_dir"
                           THEN find_python_files(req.path)
                           ELSE files
               /\ pc' = "ex_json"
               /\ UNCHANGED response
    /\ UNCHANGED <<agent, order, last, fs, req, file_data, graph, steps>>

ExJsonCreate ==
    /\ pc = "ex_json"
    /\ fs' = (TempJson :> EmptyText) @@ fs
    /\ pc' = "ex_dump"
    /\ UNCHANGED <<agent, order, last, req, response, Locals>>

\* json.dump(code_data, temp); flush
ExDump ==
    /\ pc = "ex_dump"
    /\ LET fd == [f \in {files[i] : i \in 1..Len(files)} |-> parse_python_file(f)]
           first == CASE req.op = "explain_dir" -> FirstKey(files, fd)
                      [] req.op = "explain_file" -> basename(req.path)
                      [] OTHER -> basename(FileB)
       IN fs' = [fs EXCEPT ![TempJson] = JsonFile([first |-> first, map |-> result])]
    /\ pc' = "ex_query"
    /\ UNCHANGED <<agent, order, last, req, response, Locals>>

\* writing the JSON raises inside the with block: caught by except Exception
ExDumpFails ==
    /\ pc = "ex_dump"
    /\ response' = ErrorBody("Exception")
    /\ pc' = "done"
    /\ UNCHANGED <<agent, order, last, fs, req, Locals>>

ExQuery ==
    /\ pc = "ex_query"
    /\ \E a \in TriageActions : \E l \in LlmOutcomes :
          LET d == load_code_data(TempJson)
              r == process_query(a, l, d)
          IN /\ agent' = [asked |-> TRUE, action |-> a, llm |-> l, data |-> d, result |-> r]
             /\ response' = AgentBody(r)
    /\ pc' = "ex_unlink"
    /\ UNCHANGED <<order, last, fs, req, Locals>>

\* finally: os.unlink(temp_path)
ExJsonUnlink ==
    /\ pc = "ex_unlink"
    /\ fs' = Remove(TempJson)
    /\ pc' = "done"
    /\ UNCHANGED <<agent, order, last, req, response, Locals>>

\* the response has been sent; locals and the agent object are gone
FinishAgent ==
    /\ pc = "done"
    /\ pc' = "idle"
    /\ req' = NoRequest
    /\ files' = << >>
    /\ file_data' = << >>
    /\ graph' = EmptyGraph
    /\ result' = << >>
    /\ response' = NoResponse
    /\ steps' = {}
    /\ agent' = NoAgent
    /\ UNCHANGED <<fs, order, last>>

InitAgent ==
    /\ \E S \in SUBSET {FileA, FileB} : \E c \in [S -> Contents] :
          /\ TotalFuncs(c) <= MaxTotalFuncs
          /\ fs = (FileN :> PlainText) @@ c
    /\ pc = "idle"
    /\ req = NoRequest
    /\ files = << >>
    /\ file_data = << >>
    /\ graph = EmptyGraph
    /\ result = << >>
    /\ response = NoResponse
    /\ steps = {}
    /\ order = ScanOrder
    /\ last = NoLast
    /\ agent = NoAgent

NextAgent ==
    \/ StartUploadFresh
    \/ UploadCheckExt \/ UploadCreateTemp \/ UploadWrite \/ UploadWriteFails
    \/ UploadParse \/ UploadGraph \/ UploadAnalyze \/ UploadFilter \/ UploadFinally
    \/ StartUploadExplain
    \/ UECheckExt \/ UECreateTemp \/ UEWrite \/ UEWriteFails \/ UEAnalyze
    \/ UEJsonCreate \/ UEDump \/ UEDumpFails \/ UEQuery \/ UEJsonUnlink \/ UEFinally
    \/ StartExplain
    \/ ExData \/ ExJsonCreate \/ ExDump \/ ExDumpFails \/ ExQuery \/ ExJsonUnlink
    \/ FinishAgent

SpecAgent == InitAgent /\ [][NextAgent]_vars

\* ------------------------------------------------- process_query alone
\* the agent asked about a data file of any content: missing, not JSON, a
\* JSON list, an empty object, or the report of d/a.py

QueryDocs ==
    {InvalidJson, JsonList, JsonFile(NoData)}
       \cup (LET r == analyze_file(FileA)
             IN IF r.kind = "OK"
                THEN {JsonFile([first |-> basename(FileA), map |-> r.results])}
                ELSE {})

InitQuery ==
    /\ \E c \in Contents :
          /\ Len(c.funcs) <= MaxTotalFuncs
          /\ fs = (FileN :> PlainText) @@ (FileA :> c)
    /\ pc = "idle"
    /\ req = NoRequest
    /\ files = << >>
    /\ file_data = << >>
    /\ graph = EmptyGraph
    /\ result = << >>
    /\ response = NoResponse
    /\ steps = {}
    /\ order = ScanOrder
    /\ last = NoLast
    /\ agent = NoAgent

\* a query about the data file, which exists with some content or not at all
StartQuery ==
    /\ pc = "idle"
    /\ NoTempFiles
    /\ \/ fs' = fs
       \/ \E d \in QueryDocs : fs' = (TempJson :> d) @@ fs
    /\ req' = [op |-> "query", path |-> TempJson, filename |-> NoName, content |-> PlainText]
    /\ pc' = "pq_call"
    /\ UNCHANGED <<agent, order, last, response, Locals>>

\* agent.process_query(query, file_path)
QueryCall ==
    /\ pc = "pq_call"
    /\ \E a \in TriageActions : \E l \in LlmOutcomes :
          LET d == load_code_data(req.path)
              r == process_query(a, l, d)
          IN /\ agent' = [asked |-> TRUE, action |-> a, llm |-> l, data |-> d, result |-> r]
             /\ response' = AgentBody(r)
    /\ pc' = "done"
    /\ UNCHANGED <<order, last, fs, req, Locals>>

\* the caller has the result; the data file is taken away
QueryFinish ==
    /\ pc = "done"
    /\ pc' = "idle"
    /\ fs' = Remove(TempJson)
    /\ req' = NoRequest
    /\ response' = NoResponse
    /\ agent' = NoAgent
    /\ UNCHANGED <<order, last, Locals>>

NextQuery == StartQuery \/ QueryCall \/ QueryFinish

SpecQuery == InitQuery /\ [][NextQuery]_vars

\* ================================================================ claims
\* the handler has returned a report
Returned == pc = "done" /\ response.kind = "OK"

\* keys of file_data in insertion order
KeyOrder == IF req.op = "dir" THEN files ELSE <<req.path>>

\* the file whose entry the report holds under key k: the last parsed file
\* of that base name
SourceOf(k) ==
    LET idx == {i \in 1..Len(KeyOrder) :
                   basename(KeyOrder[i]) = k /\ Parsed(file_data, KeyOrder[i])}
    IN KeyOrder[CHOOSE i \in idx : \A j \in idx : j <= i]

EdgesOut(node) == {e \in graph.edges : e[1] = node}
EdgesIn(node) == {e \in graph.edges : e[2] = node}

\* the files a directory analysis has to cover: those under the directory
\* that carry the source extension
SourcesUnder(root) == {p \in DOMAIN fs : IsUnder(root, p) /\ EndsWithPy(p)}

\* the directory of the concrete scenario: a.py defines foo() calling bar(),
\* b.py defines bar() calling nothing
ScenarioFooBar ==
    /\ req.op = "dir"
    /\ req.path = DirD
    /\ SourcesUnder(DirD) = {FileA, FileB}
    /\ fs[FileA] = [ok |-> TRUE, funcs |-> <<[name |-> "foo", refs |-> {"bar"}]>>]
    /\ fs[FileB] = [ok |-> TRUE, funcs |-> <<[name |-> "bar", refs |-> {}]>>]

NamesOf(fl) == [i \in 1..Len(fl) |-> fl[i].name]

\* file p, which parses, is in the returned report with all its functions
FullyAnalyzed(p) ==
    /\ basename(p) \in DOMAIN response.results
    /\ NamesOf(response.results[basename(p)].functions) = NamesOf(fs[p].funcs)

BaseNamesDistinct(S) == \A p, q \in S : basename(p) = basename(q) => p = q

\* C3: in a directory analysis a file that fails to parse gets a record
\* with an empty function list and a diagnostic, no other file gets a
\* diagnostic, the analysis still returns a report, and every sibling that
\* parses is in that report with all its functions.
C3_MalformedFileIsolated ==
    /\ (req.op = "dir" /\ "parse" \in steps) =>
          \A p \in DOMAIN file_data :
             IF fs[p].ok
             THEN file_data[p].diagnostic = "none"
             ELSE file_data[p].functions = << >> /\ file_data[p].diagnostic # "none"
    /\ (req.op = "dir" /\ pc = "done" /\ isdir(req.path)
          /\ \E p \in SourcesUnder(req.path) : ~fs[p].ok) =>
          /\ response.kind = "OK"
          /\ \A p \in SourcesUnder(req.path) : fs[p].ok => FullyAnalyzed(p)

\* C4: a directory of N >= 1 source files that all parse and have pairwise
\* distinct base names gives a report of exactly N keys, the base names.
C4_OneKeyPerFile ==
    (/\ req.op = "dir" /\ pc = "done" /\ isdir(req.path)
     /\ SourcesUnder(req.path) # {}
     /\ \A p \in SourcesUnder(req.path) : fs[p].ok
     /\ BaseNamesDistinct(SourcesUnder(req.path))) =>
        /\ response.kind = "OK"
        /\ DOMAIN response.results = {basename(p) : p \in SourcesUnder(req.path)}
        /\ Cardinality(DOMAIN response.results) = Cardinality(SourcesUnder(req.path))

C4_Witness ==
    /\ Returned /\ req.op = "dir"
    /\ Cardinality(SourcesUnder(req.path)) = 2
    /\ \A p \in SourcesUnder(req.path) : fs[p].ok
    /\ BaseNamesDistinct(SourcesUnder(req.path))

\* C5: the report of a directory analysis has one entry per file that
\* parsed, also when two of the files share a base name.
C5_NoSilentCollision ==
    (req.op = "dir" /\ Returned) =>
        Cardinality(DOMAIN response.results)
            = Cardinality({p \in SourcesUnder(req.path) : fs[p].ok})

\* C6: analyze_file and analyze_directory on a path that does not exist end
\* with NotFound (404), and NotFound is raised before any scan, parse,
\* graph or analysis step.
C6_NotFoundFirst ==
    /\ (pc = "done" /\ req.op \in {"file", "dir"} /\ ~exists(req.path)) =>
          response.kind = "NotFound" /\ response.status = 404
    /\ response.kind = "NotFound" =>
          steps = {} /\ DOMAIN file_data = {} /\ DOMAIN result = {}

C6_Witness ==
    pc = "done" /\ req.op = "file" /\ ~exists(req.path) /\ response.kind = "NotFound"

\* C7: analyze_file on an existing path without the .py extension ends with
\* WrongFileType (400) and parses nothing, and analyze_file reports
\* WrongFileType only for a path that exists.
C7_WrongFileType ==
    req.op = "file" =>
       /\ (pc = "done" /\ exists(req.path) /\ ~EndsWithPy(req.path)) =>
             response.kind = "WrongFileType" /\ response.status = 400
       /\ response.kind = "WrongFileType" =>
             exists(req.path) /\ steps = {} /\ DOMAIN file_data = {}

C7_Witness ==
    pc = "done" /\ req.op = "file" /\ req.path = FileN /\ response.kind = "WrongFileType"

\* C8: analyze_directory on an existing directory with no source file under
\* it ends with NoSourceFiles, and no parse, graph or analysis step runs.
C8_NoSourceFiles ==
    /\ (pc = "done" /\ req.op = "dir" /\ isdir(req.path)
          /\ SourcesUnder(req.path) = {}) => response.kind = "NoSourceFiles"
    /\ response.kind = "NoSourceFiles" =>
          steps \cap {"parse", "graph", "analyze"} = {} /\ DOMAIN file_data = {}

\* the directory holds a file, but none with the source extension
C8_Witness ==
    /\ pc = "done" /\ req.op = "dir" /\ req.path = DirD
    /\ response.kind = "NoSourceFiles"

\* a single-file analysis has computed its report and ended
SingleFileDone == pc = "done" /\ req.op \in {"file", "upload"} /\ "analyze" \in steps

\* C9 as stated: a single-file analysis fails with NoAnalysisAvailable
\* exactly when the analyzed file's base name is not a key of the computed
\* report, and otherwise returns exactly that key with the computed entry.
C9_AsStated ==
    SingleFileDone =>
       LET base == basename(req.path)
       IN /\ response.kind = "NoAnalysisAvailable" <=> base \notin DOMAIN result
          /\ response.kind # "NoAnalysisAvailable" =>
                /\ response.kind = "OK"
                /\ DOMAIN response.results = {base}
                /\ response.results[base] = result[base]

\* C9 amended: as stated for analyze_file; analyze_uploaded_file looks the
\* entry up under the temporary file's base name and returns it under the
\* single key of the upload's original name, "file" set to that name.
C9_NoAnalysisAvailable ==
    SingleFileDone =>
       LET base == basename(req.path)
       IN /\ response.kind = "NoAnalysisAvailable" <=> base \notin DOMAIN result
          /\ response.kind = "NoAnalysisAvailable" => response.status = 500
          /\ response.kind # "NoAnalysisAvailable" =>
                /\ response.kind = "OK"
                /\ IF req.op = "file"
                   THEN /\ DOMAIN response.results = {base}
                        /\ response.results[base] = result[base]
                   ELSE /\ DOMAIN response.results = {req.filename}
                        /\ response.results[req.filename]
                             = [result[base] EXCEPT !.file = req.filename]

\* an upload of a file that parses has been answered
C9_Witness ==
    /\ SingleFileDone /\ req.op = "upload" /\ response.kind = "OK"
    /\ Len(response.results[req.filename].functions) > 0

FunctionEntryShape(fe) == DOMAIN fe = {"name", "fan_in", "fan_out", "is_entry_point"}

FileSet == {files[i] : i \in 1..Len(files)}

\* C13: in a directory analysis the graph is built and the fan-in/fan-out
\* values are computed only when every scanned file has been parsed, and a
\* returned report is the one computed from the graph over all scanned files.
C13_ParseBarrier ==
    req.op = "dir" =>
       /\ ("graph" \in steps \/ "analyze" \in steps) =>
             /\ DOMAIN file_data = FileSet
             /\ \A f \in FileSet : file_data[f] = parse_python_file(f)
       /\ "analyze" \in steps =>
             graph = build_dependency_graph(files, [f \in FileSet |-> parse_python_file(f)])
       /\ Returned =>
             Results(summarize_analysis(
                 build_dependency_graph(files, [f \in FileSet |-> parse_python_file(f)]),
                 files, [f \in FileSet |-> parse_python_file(f)])) = response

C13_Witness == Returned /\ req.op = "dir" /\ Len(files) >= 2 /\ graph.edges # {}

\* the parsed files of the analysis that define a function called name
DefinersOf(name) == {q \in FileSet : Parsed(file_data, q) /\ Defines(file_data, q, name)}

\* the first file in scan order among a non-empty set of scanned files
FirstInScan(D) == files[CHOOSE i \in 1..Len(files) : files[i] \in D /\ \A j \in 1..(i - 1) : files[j] \notin D]

StripUnresolved(fd) ==
    [p \in DOMAIN fd |->
        [fd[p] EXCEPT !.functions =
            [i \in 1..Len(fd[p].functions) |->
                [fd[p].functions[i] EXCEPT !.refs =
                    {n \in fd[p].functions[i].refs : DefinersOf(n) # {}}]]]]

\* a function of the analysis refers to a name none of the analyzed files
\* defines
HasUnresolved ==
    \E p \in FileSet : \E i \in 1..Len(file_data[p].functions) :
       \E n \in file_data[p].functions[i].refs : DefinersOf(n) = {}

\* C15: a reference to a name no file of the analysis set defines gives no
\* edge and no error: both endpoints of every edge are functions of parsed
\* files of the set, graph and report are those of the same records without
\* such references, and the analysis returns its report.
C15_UnresolvedDropped ==
    (req.op = "dir" /\ "graph" \in steps) =>
       /\ \A e \in graph.edges :
             /\ e[1][1] \in FileSet /\ Defines(file_data, e[1][1], e[1][2])
             /\ e[2][1] \in FileSet /\ Defines(file_data, e[2][1], e[2][2])
       /\ \A p \in FileSet : \A i \in 1..Len(file_data[p].functions) :
             \A n \in file_data[p].functions[i].refs :
                DefinersOf(n) = {} =>
                   {e \in EdgesOut(<<p, file_data[p].functions[i].name>>) : e[2][2] = n} = {}
       /\ graph = build_dependency_graph(files, StripUnresolved(file_data))
       /\ "analyze" \in steps =>
             result = summarize_analysis(
                 build_dependency_graph(files, StripUnresolved(file_data)),
                 files, StripUnresolved(file_data))
       /\ pc = "done" => response.kind = "OK"

\* the analysis of d/sub returned while a function there refers to a name
\* that only a file outside d/sub defines
C15_Witness ==
    /\ Returned
    /\ req.op = "dir"
    /\ req.path = DirSub
    /\ HasUnresolved
    /\ \E i \in 1..Len(file_data[FileSubA].functions) :
          \E n \in file_data[FileSubA].functions[i].refs :
             /\ DefinersOf(n) = {}
             /\ FileB \in DOMAIN fs /\ fs[FileB].ok
             /\ \E k \in 1..Len(fs[FileB].funcs) : fs[FileB].funcs[k].name = n

\* some function of the analyzed single file refers to a function of that
\* file
FileReferencesItself ==
    \E i \in 1..Len(file_data[req.path].functions) :
       \E n \in file_data[req.path].functions[i].refs : Defines(file_data, req.path, n)

\* C16: in a single-file analysis (of a path or of an upload) the graph
\* given to the analyzer has exactly one node, the file, and no edges when
\* the file does not reference itself; as built by the handlers it has no
\* edges in any case.
C16_SingleFileGraph ==
    (req.op \in {"file", "upload"} /\ "graph" \in steps) =>
       /\ graph.nodes = {req.path}
       /\ ~FileReferencesItself => graph.edges = {}
       /\ graph.edges = {}
       /\ "analyze" \in steps =>
             result = summarize_analysis([nodes |-> {req.path}, edges |-> {}],
                                         <<req.path>>, file_data)

\* a file with functions, none referring to a function of the file, has been
\* analyzed alone
C16_Witness ==
    /\ Returned
    /\ req.op = "file"
    /\ "analyze" \in steps
    /\ Len(file_data[req.path].functions) >= 2
    /\ ~FileReferencesItself

\* C20: a report returned by analyze_uploaded_file has exactly one key, the
\* original name of the upload, the entry's "file" is that name too, its
\* functions are the ones computed for the temporary copy, and the temporary
\* file's name is neither a key nor a "file" value.
C20_UploadKeyedByOriginalName ==
    (req.op = "upload" /\ Returned) =>
       /\ DOMAIN response.results = {req.filename}
       /\ response.results[req.filename].file = req.filename
       /\ response.results[req.filename].functions = result[basename(TempPy)].functions
       /\ basename(TempPy) \notin DOMAIN response.results
       /\ \A k \in DOMAIN response.results : response.results[k].file # basename(TempPy)

\* an upload with functions has been analyzed and its temporary copy removed
C20_Witness ==
    /\ Returned
    /\ req.op = "upload"
    /\ req.filename # basename(TempPy)
    /\ TempPy \notin DOMAIN fs
    /\ Len(response.results[req.filename].functions) >= 1

\* a directory analysis of the path analyzed before has ended
SamePathAgain == pc = "done" /\ req.op = "dir" /\ last.req = req

FuncsOf(p) == parse_python_file(p).functions

\* no function of p refers to a name defined in another file of the
\* directory, and no function of another file there refers to a name p
\* defines
NoCrossFileReferences(p, dir) ==
    \A q \in SourcesUnder(dir) \ {p} :
       /\ \A i \in 1..Len(FuncsOf(p)) : \A n \in FuncsOf(p)[i].refs :
             \A k \in 1..Len(FuncsOf(q)) : FuncsOf(q)[k].name # n
       /\ \A k \in 1..Len(FuncsOf(q)) : \A n \in FuncsOf(q)[k].refs :
             \A i \in 1..Len(FuncsOf(p)) : FuncsOf(p)[i].name # n

\* the single file analyzed now lies in the directory analyzed before
FileAfterParentDirectory ==
    /\ Returned
    /\ req.op = "file"
    /\ last.response.kind = "OK"
    /\ last.req.path = SubSeq(req.path, 1, Len(req.path) - 1)
    /\ basename(req.path) \in DOMAIN last.response.results

\* C12: for a file without cross-file references, analyzed alone after its
\* parent directory was analyzed, the function entries of the single-file
\* report equal the file's entries in the directory's report, also when
\* functions of the file call one another.
C12_SingleFileEqualsDirectory ==
    (FileAfterParentDirectory /\ NoCrossFileReferences(req.path, last.req.path)) =>
       response.results[basename(req.path)].functions
          = last.response.results[basename(req.path)].functions

\* C17: when a request of a handler that creates temporary files has ended,
\* by a return or by an exception, no temporary file it created is left.
C17_TempFilesDeleted == pc = "done" => NoTempFiles

\* the agent has answered in upload_and_explain or analyze_and_explain,
\* process_query not having ended in its except branch
AgentAnsweredUpload ==
    /\ req.op \in {"upload_explain", "analyze_explain"}
    /\ agent.asked
    /\ agent.result.markdown.kind # "error"

\* C18: in upload_and_explain and analyze_and_explain the data handed to the
\* agent is keyed by the upload's original name, and the agent's result
\* names that file, in its "file" field and in the markdown header, never
\* the temporary file.
C18_AgentReportsOriginalName ==
    AgentAnsweredUpload =>
       /\ DOMAIN agent.data.map = {req.filename}
       /\ agent.result.file = req.filename
       /\ agent.result.markdown.kind = "doc" => agent.result.markdown.file = req.filename
       /\ agent.result.file # basename(TempPy)

\* C19: explain_code without code_analysis, file_path and directory_path
\* ends with status 400 and the missing-input detail, the agent not having
\* been asked.
C19_MissingInputIs400 ==
    (req.op = "explain_none" /\ pc = "done") =>
       /\ response.status = 400
       /\ response.kind = "MissingInput"
       /\ ~agent.asked

\* process_query has been called and an exception was raised inside it
QueryFailed == agent.asked /\ QueryRaises(agent.action, agent.llm, agent.data)

\* C21: whatever triage does and whatever the data file holds, process_query
\* returns to its caller a dict with the key "file"; when an exception was
\* raised inside it, the dict also has "error" and "markdown".
C21_AlwaysReturnsDict ==
    (req.op = "query" /\ agent.asked) =>
       /\ pc = "done"
       /\ response = AgentBody(agent.result)
       /\ "file" \in agent.result.keys
       /\ QueryFailed => {"error", "markdown"} \subseteq agent.result.keys

\* the data file held a JSON list, and triage and the completion API worked
C21_Witness ==
    /\ req.op = "query"
    /\ QueryFailed
    /\ ~agent.data.dict
    /\ ~agent.action.raises
    /\ agent.llm = "ok"

\* process_query has completed without an exception for an action that asks
\* for the overall analysis
OverallCompleted ==
    /\ req.op = "query"
    /\ agent.asked
    /\ agent.action.overall_analysis
    /\ ~QueryRaises(agent.action, agent.llm, agent.data)

\* C22: when triage sets overall_analysis and process_query completes, the
\* result has "overall_analysis", "markdown" and exactly one of
\* "summarized_functions", "important_functions", "function_summary",
\* whatever the other flags are and also when the function asked for was not
\* found.
C22_OverallAnalysisKeys ==
    OverallCompleted =>
       /\ {"overall_analysis", "markdown"} \subseteq agent.result.keys
       /\ Cardinality(agent.result.keys \cap SummaryKeys) = 1
       /\ agent.result.markdown.kind = "doc"

\* the overall analysis was asked for together with a function the data
\* does not have
C22_Witness ==
    /\ OverallCompleted
    /\ ~agent.action.explain_code
    /\ ~agent.action.find_important_functions
    /\ agent.action.summarize_specific_function
    /\ agent.action.function_name = "foo"
    /\ ~FunctionFound(agent.action, agent.data)
    /\ "error" \in agent.result.keys

====
